---------------------------- MODULE Spec2Model ----------------------------
(***************************************************************************)
(* ContentGem Python client (src/contentgem/client.py, types.py): the      *)
(* transport (_make_request), the envelope-backed status objects, the      *)
(* resource operations and the two polling loops wait_for_generation and   *)
(* wait_for_bulk_generation.                                               *)
(*                                                                         *)
(* Python values: an Optional value is a set with at most one element      *)
(* (None is {}, a present value x is {x}); a dict is a function from its   *)
(* keys to its values; an exception is a record [type, prefix, detail,     *)
(* code] where the message is prefix followed by detail.                   *)
(***************************************************************************)
EXTENDS Integers, Sequences, FiniteSets, TLC

VARIABLES call, unit, client

vars == <<call, unit, client>>

(***************************************************************************)
(* Bounds of the model.                                                    *)
(***************************************************************************)
\* largest max_attempts a caller passes
MaxAttempts == 3
\* number of call frames (threads of control that may use the client)
NumCalls == 2

Calls == 1..NumCalls
\* the thread of control of the sequential specification
MainCalls == {1}

(***************************************************************************)
(* Python values.                                                          *)
(***************************************************************************)
None == {}
Some(x) == {x}
IsNone(o) == o = {}
The(o) == CHOOSE x \in o : TRUE

\* the empty dict {}
EmptyDict == [k \in {} |-> ""]

\* truthiness of an Optional[Dict]: None and {} are falsy
Truthy(o) == ~IsNone(o) /\ DOMAIN The(o) # {}

\* d.get(key) on a dict: the value, or None when the key is missing
DictGet(d, key) == IF key \in DOMAIN d THEN Some(d[key]) ELSE None

(***************************************************************************)
(* Exceptions.                                                             *)
(***************************************************************************)
NoError == [type |-> "", prefix |-> "", detail |-> "", code |-> 0]
Exc(t, p, d, c) == [type |-> t, prefix |-> p, detail |-> d, code |-> c]


(***************************************************************************)
(* The remote API as the client sees it: one HTTP exchange is either a     *)
(* transport failure (no response) or a response with a status code and a  *)
(* body that is a JSON object (an envelope) or not JSON at all.            *)
(***************************************************************************)
\* status values of a generation job; "queued" stands for any value that is
\* neither "completed" nor "failed" nor the documented "generating"
StatusValues == {"generating", "queued", "completed", "failed"}

DataOf(s) ==
    IF s = "completed" THEN [status |-> s, content |-> "Generated content here..."]
    ELSE [status |-> s]

EnvStatus(s) == [success |-> TRUE, data |-> Some(DataOf(s))]
EnvNoData == [success |-> TRUE]
EnvNullData == [success |-> TRUE, data |-> None]
EnvEmptyData == [success |-> TRUE, data |-> Some(EmptyDict)]
EnvNoStatus == [success |-> TRUE, data |-> Some([sessionId |-> "sess_456"])]
EnvError == [success |-> FALSE, error |-> Some("INVALID_PROMPT"),
             message |-> Some("Prompt is too short")]
EnvErrorOnly == [success |-> FALSE, error |-> Some("INVALID_PROMPT")]
EnvExtraKey == [success |-> TRUE, data |-> Some(DataOf("completed")),
                user |-> Some([plan |-> "pro"])]
EnvNoSuccess == [data |-> Some(DataOf("completed"))]

\* the status of a bulk job with its counters; the client's own stubs answer
\* with counters (test_check_bulk_generation_status) and without
\* (test_wait_for_bulk_generation_success); the server is not bound by the
\* client to any relation between the counters
EnvBulk(s, total, completed, failed) ==
    [success |-> TRUE,
     data |-> Some([status |-> s, total_prompts |-> total,
                    completed_prompts |-> completed, failed_prompts |-> failed])]
BulkEnvelopes ==
    {EnvBulk("generating", 3, 2, 0), EnvBulk("completed", 3, 2, 1),
     EnvBulk("completed", 3, 3, 1)}

OkEnvelopes ==
    {EnvStatus(s) : s \in StatusValues} \cup
    {EnvNoData, EnvNullData, EnvEmptyData, EnvNoStatus, EnvError, EnvExtraKey,
     EnvNoSuccess} \cup BulkEnvelopes
ErrorEnvelopes == {EnvError, EnvErrorOnly}

JsonResponse(c, env) ==
    [kind |-> "response", code |-> c, json |-> TRUE, body |-> env, cause |-> ""]
TextResponse(c) ==
    [kind |-> "response", code |-> c, json |-> FALSE, body |-> EmptyDict, cause |-> ""]
\* session.request raises a RequestException without a response (ConnectionError,
\* Timeout, ...); cause is the text of that exception
TransportFailure(cause) ==
    [kind |-> "network", code |-> 0, json |-> FALSE, body |-> EmptyDict, cause |-> cause]
NetworkFailure == TransportFailure("Network error")
TransportCauses == {"Network error", "Connection refused", "Read timed out"}

ErrorCodes == {400, 500}

HttpResponses ==
    {JsonResponse(200, e) : e \in OkEnvelopes} \cup
    {JsonResponse(c, e) : c \in ErrorCodes, e \in ErrorEnvelopes} \cup
    {TextResponse(c) : c \in {200} \cup ErrorCodes} \cup
    {TransportFailure(t) : t \in TransportCauses}

\* the status value a response carries on the wire (None when the body has no
\* data object or the data has no status key): the log of what the status
\* endpoint answered, kept in hist
StubStatus(resp) ==
    IF "data" \in DOMAIN resp.body /\ ~IsNone(resp.body.data)
       /\ "status" \in DOMAIN The(resp.body.data)
    THEN Some(The(resp.body.data).status) ELSE None

(***************************************************************************)
(* Transport: ContentGemClient._make_request.                              *)
(***************************************************************************)
Returned(v, n) == [raised |-> FALSE, value |-> v, error |-> NoError, requests |-> n]
Raised(e, n) == [raised |-> TRUE, value |-> EmptyDict, error |-> e, requests |-> n]

\* response.raise_for_status(): an HTTPError for a 4xx or 5xx status
raise_for_status(resp) == resp.code >= 400 /\ resp.code < 600

\* str(e) of that HTTPError: "<code> Client Error: ..." or "<code> Server Error: ..."
HTTPErrorText(code) == IF code < 500 THEN "Client Error" ELSE "Server Error"

\* error_data.get('message', str(e)), formatted into the f-string
ErrorMessage(resp) ==
    IF "message" \in DOMAIN resp.body
    THEN Exc("RequestException", "API Error: ",
             IF IsNone(resp.body.message) THEN "None" ELSE The(resp.body.message), 0)
    ELSE Exc("RequestException", "API Error: ", HTTPErrorText(resp.code), resp.code)

\* faulty variant: a transport that sends the request again after a failure
make_request_retry(resp, newRequests) ==
    IF resp.kind = "network"
    THEN Raised(Exc("RequestException", "Request failed: ", resp.cause, 0), 2)
    ELSE IF resp.code >= 400 /\ resp.code < 600
    THEN Raised(Exc("RequestException", "HTTP ", HTTPErrorText(resp.code),
                    resp.code), 2)
    ELSE IF resp.json
    THEN Returned(resp.body, 1)
    ELSE Raised(Exc("RequestException", "Request failed: ", "Expecting value", 0), 1)

\* faulty variant: every RequestException is reported the same way, as an HTTP
\* error with whatever status code there is
make_request_no_distinction(resp, newRequests) ==
    IF resp.kind = "network" \/ (resp.code >= 400 /\ resp.code < 600)
    THEN Raised(Exc("RequestException", "HTTP ", HTTPErrorText(resp.code), resp.code), 1)
    ELSE IF resp.json
    THEN Returned(resp.body, 1)
    ELSE Raised(Exc("RequestException", "Request failed: ", "Expecting value", 0), 1)

\* one call of _make_request answered by resp. newRequests: the installed
\* requests raises its own JSONDecodeError (a RequestException) from
\* response.json(); an older one (setup.py allows >= 2.25.0) raises a ValueError
make_request(resp, newRequests) ==
    IF resp.kind = "network"
    THEN Raised(Exc("RequestException", "Request failed: ", resp.cause, 0), 1)
    ELSE IF raise_for_status(resp)
    THEN IF resp.json
         THEN Raised(ErrorMessage(resp), 1)
         ELSE Raised(Exc("RequestException", "HTTP ", HTTPErrorText(resp.code),
                         resp.code), 1)
    ELSE IF resp.json
    THEN Returned(resp.body, 1)
    ELSE IF newRequests
    THEN Raised(Exc("RequestException", "Request failed: ", "Expecting value", 0), 1)
    ELSE Raised(Exc("JSONDecodeError", "", "Expecting value", 0), 1)

(***************************************************************************)
(* Envelope-backed objects: the dataclasses GenerationStatus,              *)
(* BulkGenerationStatus and GenerationResponse (fields success, data,      *)
(* message, error; all but success default to None).                       *)
(***************************************************************************)
EnvelopeFields == {"success", "data", "message", "error"}

\* the constructor, given the dict as keywords, raises TypeError on an unexpected keyword or when the
\* required positional success is missing
Constructible(env) == "success" \in DOMAIN env /\ DOMAIN env \subseteq EnvelopeFields

Construct(env) ==
    [success |-> env.success,
     data |-> IF "data" \in DOMAIN env THEN env.data ELSE None,
     message |-> IF "message" \in DOMAIN env THEN env.message ELSE None,
     error |-> IF "error" \in DOMAIN env THEN env.error ELSE None]

\* faulty variants of the status accessors: a default of "completed" for a
\* missing status, misspelt literals, and completion read as anything but
\* generating or failed
status_default_completed(obj) ==
    IF Truthy(obj.data) /\ "status" \in DOMAIN The(obj.data)
    THEN Some(The(obj.data).status) ELSE Some("completed")
is_completed_typo(obj) ==
    IF Truthy(obj.data) THEN DictGet(The(obj.data), "status") = Some("complete")
    ELSE FALSE
is_failed_typo(obj) ==
    IF Truthy(obj.data) THEN DictGet(The(obj.data), "status") = Some("error")
    ELSE FALSE
bulk_is_completed_not_generating(obj) ==
    IF Truthy(obj.data)
    THEN DictGet(The(obj.data), "status") \notin {Some("generating"), Some("failed")}
    ELSE FALSE

\* the status property: self.data.get("status") if self.data else None
status(obj) == IF Truthy(obj.data) THEN DictGet(The(obj.data), "status") ELSE None

\* the content property
content(obj) == IF Truthy(obj.data) THEN DictGet(The(obj.data), "content") ELSE None

\* GenerationStatus.is_completed / is_failed
is_completed(obj) == status(obj) = Some("completed")
is_failed(obj) == status(obj) = Some("failed")

\* BulkGenerationStatus.status / is_completed / is_failed
bulk_status(obj) == IF Truthy(obj.data) THEN DictGet(The(obj.data), "status") ELSE None
bulk_is_completed(obj) == bulk_status(obj) = Some("completed")
bulk_is_failed(obj) == bulk_status(obj) = Some("failed")

\* faulty variant: the accessor counts every prompt that is not failed
completed_prompts_all_but_failed(obj) ==
    IF Truthy(obj.data) /\ "total_prompts" \in DOMAIN The(obj.data)
    THEN Some(The(obj.data).total_prompts) ELSE None

\* BulkGenerationStatus.completed_prompts / failed_prompts
completed_prompts(obj) ==
    IF Truthy(obj.data) THEN DictGet(The(obj.data), "completed_prompts") ELSE None
failed_prompts(obj) ==
    IF Truthy(obj.data) THEN DictGet(The(obj.data), "failed_prompts") ELSE None

(***************************************************************************)
(* Resource operations: one _make_request each; the typed ones build their *)
(* object from the returned dict, passed as keyword arguments.                     *)
(***************************************************************************)
TypeErrorExc == Exc("TypeError", "", "__init__() got unexpected or missing arguments", 0)

\* faulty variant: a dict the constructor does not accept gives an object
\* with no data
FromResponse_malformed_is_empty(r) ==
    IF r.raised THEN r
    ELSE IF Constructible(r.value) THEN Returned(Construct(r.value), r.requests)
    ELSE Returned(Construct([success |-> TRUE]), r.requests)

FromResponse(r) ==
    IF r.raised THEN r
    ELSE IF Constructible(r.value) THEN Returned(Construct(r.value), r.requests)
    ELSE Raised(TypeErrorExc, r.requests)

health_check(resp, newRequests) == make_request(resp, newRequests)
generate_publication(resp, newRequests) == FromResponse(make_request(resp, newRequests))
check_generation_status(resp, newRequests) == FromResponse(make_request(resp, newRequests))
check_bulk_generation_status(resp, newRequests) ==
    FromResponse(make_request(resp, newRequests))
\* the file is there and opens
upload_image(resp, newRequests) == make_request(resp, newRequests)
get_publications(resp, newRequests) == make_request(resp, newRequests)
get_images(resp, newRequests) == make_request(resp, newRequests)
get_statistics_overview(resp, newRequests) ==
    FromResponse(make_request(resp, newRequests))

\* the method and endpoint each operation hands to _make_request
RequestOf(op) ==
    CASE op = "health_check" -> [method |-> "GET", endpoint |-> "/health"]
      [] op = "generate_publication" ->
            [method |-> "POST", endpoint |-> "/publications/generate"]
      [] op \in {"check_generation_status", "wait_for_generation"} ->
            [method |-> "GET", endpoint |-> "/publications/generation-status/{session_id}"]
      [] op \in {"check_bulk_generation_status", "wait_for_bulk_generation"} ->
            [method |-> "POST", endpoint |-> "/publications/bulk-status"]
      [] op = "upload_image" -> [method |-> "POST", endpoint |-> "/images/upload"]
      [] op = "get_publications" -> [method |-> "GET", endpoint |-> "/publications"]
      [] op = "get_images" -> [method |-> "GET", endpoint |-> "/images"]
      [] op = "get_statistics_overview" ->
            [method |-> "GET", endpoint |-> "/statistics/overview"]

WaitOps == {"wait_for_generation", "wait_for_bulk_generation"}
SingleOps == {"health_check", "generate_publication", "check_generation_status",
              "check_bulk_generation_status", "upload_image", "get_publications",
              "get_images", "get_statistics_overview"}
\* operations that change server state
MutatingOps == {"generate_publication", "upload_image"}
Ops == SingleOps \cup WaitOps

(***************************************************************************)
(* The client object: its timeout, its requests.Session with the default   *)
(* headers, and where its caller stands with respect to a with block.      *)
(***************************************************************************)
DefaultTimeout == 30
CustomTimeout == 60

\* the timeout argument of the constructor: left out or given
TimeoutArgs == {None, Some(CustomTimeout)}

ApiKey == "test_key"
JsonContentType == "application/json"
MultipartContentType == "multipart/form-data; boundary=..."

\* ContentGemClient(api_key, timeout=...): scope is "plain" outside a with
\* block, "with" inside one and "left" after it, "cli" while main of cli.py
\* runs its command and "exited" once that process has ended; exc is what
\* __exit__ was given and propagated what left the with statement; command
\* and exit_code are those of the run of main
NewClient(timeout_arg) ==
    [timeout |-> IF IsNone(timeout_arg) THEN DefaultTimeout ELSE The(timeout_arg),
     timeout_arg |-> timeout_arg,
     session_headers |-> [h \in {"X-API-Key", "Content-Type"} |->
                            IF h = "X-API-Key" THEN ApiKey ELSE JsonContentType],
     session_open |-> TRUE,
     scope |-> "plain", exc |-> NoError, propagated |-> NoError,
     command |-> "", exit_code |-> None]

Clients == {NewClient(t) : t \in TimeoutArgs}

\* the keyword arguments an operation hands to _make_request besides method
\* and endpoint: a json body, files and form data, headers, a timeout
NoKwargs == [json |-> FALSE, files |-> FALSE, headers |-> None, timeout |-> None]

KwargsOf(op) ==
    CASE op \in {"generate_publication", "check_bulk_generation_status",
                 "wait_for_bulk_generation"} -> [NoKwargs EXCEPT !.json = TRUE]
      [] op = "upload_image" ->
            [NoKwargs EXCEPT !.files = TRUE,
                             !.headers = Some([h \in {"X-API-Key"} |-> Some(ApiKey)])]
      [] OTHER -> NoKwargs

\* requests merges the headers of a request into the session's: the
\* request's value wins, and a header the request sets to None is dropped
MergeHeaders(session_headers, request_headers) ==
    IF IsNone(request_headers) THEN session_headers
    ELSE LET req == The(request_headers)
             keep == {h \in DOMAIN session_headers \cup DOMAIN req :
                        h \in DOMAIN req => ~IsNone(req[h])}
         IN [h \in keep |-> IF h \in DOMAIN req THEN The(req[h])
                            ELSE session_headers[h]]

\* requests sets the content type of the body it encodes (multipart for
\* files, JSON for json) only when the merged headers have no Content-Type
PrepareHeaders(headers, kwargs) ==
    IF "Content-Type" \in DOMAIN headers \/ ~(kwargs.files \/ kwargs.json)
    THEN headers
    ELSE [h \in DOMAIN headers \cup {"Content-Type"} |->
            IF h = "Content-Type"
            THEN (IF kwargs.files THEN MultipartContentType ELSE JsonContentType)
            ELSE headers[h]]

\* faulty variant: every request waits for the default timeout
request_timeout_default(cl, kwargs) == DefaultTimeout

\* if "timeout" not in kwargs: kwargs["timeout"] = self.timeout
request_timeout(cl, kwargs) ==
    IF IsNone(kwargs.timeout) THEN cl.timeout ELSE The(kwargs.timeout)

NoRequest == [headers |-> EmptyDict, body |-> "", timeout |-> 0]

\* self.session.request(method, url, **kwargs) as it goes out
session_request(cl, kwargs) ==
    [headers |-> PrepareHeaders(MergeHeaders(cl.session_headers, kwargs.headers),
                                kwargs),
     body |-> IF kwargs.files THEN "multipart"
              ELSE IF kwargs.json THEN "json" ELSE "none",
     timeout |-> request_timeout(cl, kwargs)]

\* faulty variant: the session is left open when an exception is on its way
close_unless_raising(cl, raising) ==
    IF raising THEN cl ELSE [cl EXCEPT !.session_open = FALSE]

\* close(): self.session.close()
close(cl, raising) == [cl EXCEPT !.session_open = FALSE]

\* __exit__(exc_type, exc_val, exc_tb): closes and returns None, so the
\* exception, if any, is not suppressed
context_exit(cl, e) ==
    [close(cl, e # NoError) EXCEPT !.scope = "left", !.exc = e, !.propagated = e]

\* default arguments of the two polling loops
DefaultMaxAttempts == 60
DefaultDelaySeconds == 5
BulkDefaultMaxAttempts == 120
BulkDefaultDelaySeconds == 10

(***************************************************************************)
(* A call frame: the operation a caller invoked and the locals of its      *)
(* execution. pc: "idle" (no call), "request" (about to issue the HTTP     *)
(* request of the operation or of the loop's next status check), "sleep"   *)
(* (inside time.sleep(delay_seconds)), "done" (returned or raised).        *)
(***************************************************************************)
IdleFrame ==
    [op |-> "", pc |-> "idle", max_attempts |-> 0, attempt |-> 0,
     fetches |-> 0, sleeps |-> 0, nreq |-> 0, hist |-> <<>>,
     status |-> None, response |-> None,
     outcome |-> "none", result |-> None, error |-> NoError, sent |-> NoRequest]

Return(f, v) == [f EXCEPT !.pc = "done", !.outcome = "returned", !.result = Some(v)]
Raise(f, e) == [f EXCEPT !.pc = "done", !.outcome = "raised", !.error = e]

GenerationFailed == Exc("RequestException", "", "Generation failed", 0)
GenerationTimeout == Exc("TimeoutError", "", "Generation timeout", 0)
BulkGenerationFailed == Exc("Exception", "", "Bulk generation failed", 0)
BulkGenerationTimeout == Exc("TimeoutError", "", "Bulk generation timeout", 0)

\* faulty variant: the loop sleeps after its last attempt as well
wait_for_generation_sleep_last(f, r) ==
    IF r.raised THEN Raise(f, r.error)
    ELSE LET g == [f EXCEPT !.status = Some(r.value),
                            !.hist = Append(@, StubStatus(The(f.response)))]
         IN IF is_completed(r.value) THEN Return(g, r.value)
            ELSE IF is_failed(r.value) THEN Raise(g, GenerationFailed)
            ELSE IF g.attempt < g.max_attempts THEN [g EXCEPT !.pc = "sleep"]
            ELSE Raise(g, GenerationTimeout)

\* faulty variant: a status check that raises is counted as a pending attempt
wait_for_generation_swallow(f, r) ==
    IF r.raised
    THEN IF f.attempt < f.max_attempts - 1 THEN [f EXCEPT !.pc = "sleep"]
         ELSE Raise(f, GenerationTimeout)
    ELSE LET g == [f EXCEPT !.status = Some(r.value),
                            !.hist = Append(@, StubStatus(The(f.response)))]
         IN IF is_completed(r.value) THEN Return(g, r.value)
            ELSE IF is_failed(r.value) THEN Raise(g, GenerationFailed)
            ELSE IF g.attempt < g.max_attempts - 1 THEN [g EXCEPT !.pc = "sleep"]
            ELSE Raise(g, GenerationTimeout)

\* faulty variant: the bulk loop hands back the last snapshot when its attempts run out
wait_for_bulk_generation_partial(f, r) ==
    IF r.raised THEN Raise(f, r.error)
    ELSE LET g == [f EXCEPT !.status = Some(r.value),
                            !.hist = Append(@, StubStatus(The(f.response)))]
         IN IF bulk_is_completed(r.value) THEN Return(g, r.value)
            ELSE IF bulk_is_failed(r.value) THEN Raise(g, BulkGenerationFailed)
            ELSE IF g.attempt < g.max_attempts - 1 THEN [g EXCEPT !.pc = "sleep"]
            ELSE Return(g, r.value)

\* faulty variant: the bulk loop tests for failure only after the sleep decision
wait_for_bulk_generation_late_failure(f, r) ==
    IF r.raised THEN Raise(f, r.error)
    ELSE LET g == [f EXCEPT !.status = Some(r.value),
                            !.hist = Append(@, StubStatus(The(f.response)))]
         IN IF bulk_is_completed(r.value) THEN Return(g, r.value)
            ELSE IF g.attempt < g.max_attempts - 1 THEN [g EXCEPT !.pc = "sleep"]
            ELSE IF bulk_is_failed(r.value) THEN Raise(g, BulkGenerationFailed)
            ELSE Raise(g, BulkGenerationTimeout)

\* one iteration of the loop of wait_for_generation, from the status check to
\* faulty variant: when the attempts run out the last snapshot is handed back
wait_for_generation_return_pending(f, r) ==
    IF r.raised THEN Raise(f, r.error)
    ELSE LET g == [f EXCEPT !.status = Some(r.value),
                            !.hist = Append(@, StubStatus(The(f.response)))]
         IN IF is_completed(r.value) THEN Return(g, r.value)
            ELSE IF is_failed(r.value) THEN Raise(g, GenerationFailed)
            ELSE IF g.attempt < g.max_attempts - 1 THEN [g EXCEPT !.pc = "sleep"]
            ELSE Return(g, r.value)

\* the return, the raise, the sleep or the end of the loop; f is the frame
\* with this iteration's request already counted
wait_for_generation(f, r) ==
    IF r.raised THEN Raise(f, r.error)
    ELSE LET g == [f EXCEPT !.status = Some(r.value),
                            !.hist = Append(@, StubStatus(The(f.response)))]
         IN IF is_completed(r.value) THEN Return(g, r.value)
            ELSE IF is_failed(r.value) THEN Raise(g, GenerationFailed)
            ELSE IF g.attempt < g.max_attempts - 1 THEN [g EXCEPT !.pc = "sleep"]
            ELSE Raise(g, GenerationTimeout)

\* faulty variant: the bulk loop sleeps once more before it gives up
wait_for_bulk_generation_sleep_last(f, r) ==
    IF r.raised THEN Raise(f, r.error)
    ELSE LET g == [f EXCEPT !.status = Some(r.value),
                            !.hist = Append(@, StubStatus(The(f.response)))]
         IN IF bulk_is_completed(r.value) THEN Return(g, r.value)
            ELSE IF bulk_is_failed(r.value) THEN Raise(g, BulkGenerationFailed)
            ELSE IF g.attempt <= g.max_attempts - 1 THEN [g EXCEPT !.pc = "sleep"]
            ELSE Raise(g, BulkGenerationTimeout)

\* faulty variant: when the attempts run out the loop neither returns nor raises
wait_for_bulk_generation_hangs(f, r) ==
    IF r.raised THEN Raise(f, r.error)
    ELSE LET g == [f EXCEPT !.status = Some(r.value),
                            !.hist = Append(@, StubStatus(The(f.response)))]
         IN IF bulk_is_completed(r.value) THEN Return(g, r.value)
            ELSE IF bulk_is_failed(r.value) THEN Raise(g, BulkGenerationFailed)
            ELSE IF g.attempt < g.max_attempts - 1 THEN [g EXCEPT !.pc = "sleep"]
            ELSE [g EXCEPT !.pc = "stuck"]

\* the same iteration of wait_for_bulk_generation
wait_for_bulk_generation(f, r) ==
    IF r.raised THEN Raise(f, r.error)
    ELSE LET g == [f EXCEPT !.status = Some(r.value),
                            !.hist = Append(@, StubStatus(The(f.response)))]
         IN IF bulk_is_completed(r.value) THEN Return(g, r.value)
            ELSE IF bulk_is_failed(r.value) THEN Raise(g, BulkGenerationFailed)
            ELSE IF g.attempt < g.max_attempts - 1 THEN [g EXCEPT !.pc = "sleep"]
            ELSE Raise(g, BulkGenerationTimeout)

\* faulty variant: the loop body runs once before max_attempts is looked at
EnterLoop_at_least_once(f) == [f EXCEPT !.pc = "request"]

\* for attempt in range(max_attempts): an empty range falls through to the
\* raise after the loop
EnterLoop(f) ==
    IF f.max_attempts <= 0
    THEN Raise(f, IF f.op = "wait_for_generation" THEN GenerationTimeout
                  ELSE BulkGenerationTimeout)
    ELSE [f EXCEPT !.pc = "request"]

\* the max_attempts a caller passes
AttemptArgs == -1..MaxAttempts

(***************************************************************************)
(* Request types of types.py and their serialization.  An object is a      *)
(* function from its field names to optional values; to_dict gives the     *)
(* JSON payload, a function from keys to values.                           *)
(***************************************************************************)
CompanyInfoFields ==
    {"name", "description", "industry", "target_audience", "content_preferences",
     "tone"}

CompanyDataFields ==
    {"name", "description", "industry", "website", "contact_email",
     "contact_phone", "address", "social_media", "logo_url", "founded_year",
     "employee_count", "revenue", "target_audience", "services", "keywords"}

\* an object of a class whose fields all default to None, with the fields of
\* set given a value
ObjectWith(fields, set) == [k \in fields |-> IF k \in set THEN Some("value") ELSE None]

CompanyInfos == {ObjectWith(CompanyInfoFields, S) : S \in SUBSET CompanyInfoFields}

\* CompanyData objects with none, one, two or all of the fields set
CompanyDatas ==
    {ObjectWith(CompanyDataFields, S) :
        S \in {T \in SUBSET CompanyDataFields :
                 Cardinality(T) <= 2 \/ T = CompanyDataFields}}

\* for field, value in self.__dict__.items(): if value is not None
fields_to_dict(obj) ==
    [k \in {x \in DOMAIN obj : ~IsNone(obj[x])} |-> The(obj[k])]

CompanyInfo_to_dict(obj) == fields_to_dict(obj)
CompanyData_to_dict(obj) == fields_to_dict(obj)

\* the truth value of an optional dataclass instance: an instance defines
\* neither __bool__ nor __len__, so only None is false
TruthyObject(o) == ~IsNone(o)

KeywordLists == {None, Some(<<>>), Some(<<"test", "content">>)}
SettingsDicts == {None, Some(EmptyDict), Some([length |-> "short"])}
PromptLists == {<<"Prompt 1">>, <<"Prompt 1", "Prompt 2">>}

GenerationRequests ==
    [prompt : {"Test prompt"}, company_info : {None} \cup {Some(i) : i \in CompanyInfos},
     keywords : KeywordLists]

BulkGenerationRequests ==
    [prompts : PromptLists, company_info : {None} \cup {Some(i) : i \in CompanyInfos},
     common_settings : SettingsDicts]

\* faulty variant: the optional keys are always written
GenerationRequest_to_dict_all_keys(r) ==
    [k \in {"prompt", "company_info", "keywords"} |->
        CASE k = "prompt" -> r.prompt
          [] k = "company_info" ->
                IF IsNone(r.company_info) THEN EmptyDict
                ELSE CompanyInfo_to_dict(The(r.company_info))
          [] k = "keywords" -> IF IsNone(r.keywords) THEN <<>> ELSE The(r.keywords)]

GenerationRequest_to_dict(r) ==
    [k \in {"prompt"}
           \cup (IF TruthyObject(r.company_info) THEN {"company_info"} ELSE {})
           \cup (IF Truthy(r.keywords) THEN {"keywords"} ELSE {}) |->
        CASE k = "prompt" -> r.prompt
          [] k = "company_info" -> CompanyInfo_to_dict(The(r.company_info))
          [] k = "keywords" -> The(r.keywords)]

BulkGenerationRequest_to_dict(r) ==
    [k \in {"prompts"}
           \cup (IF TruthyObject(r.company_info) THEN {"company_info"} ELSE {})
           \cup (IF Truthy(r.common_settings) THEN {"common_settings"}
                 ELSE {}) |->
        CASE k = "prompts" -> r.prompts
          [] k = "company_info" -> CompanyInfo_to_dict(The(r.company_info))
          [] k = "common_settings" -> The(r.common_settings)]

\* the company_info argument of generate_publication: None, a CompanyInfo
\* or a dict the caller wrote
RawCompanyDicts == {EmptyDict, [name |-> "value"]}

CompanyInfoArgs ==
    {[isinstance |-> FALSE, value |-> None]}
    \cup {[isinstance |-> TRUE, value |-> Some(i)] : i \in CompanyInfos}
    \cup {[isinstance |-> FALSE, value |-> Some(d)] : d \in RawCompanyDicts}

GeneratePublicationArgs ==
    [prompt : {"Test prompt"}, company_info : CompanyInfoArgs, keywords : KeywordLists]

\* if company_info: a CompanyInfo is true, a dict is true unless empty
TruthyArg(a) == IF a.isinstance THEN TruthyObject(a.value) ELSE Truthy(a.value)

\* request_data of generate_publication
generate_publication_request_data(a) ==
    [k \in {"prompt"}
           \cup (IF TruthyArg(a.company_info) THEN {"company_info"} ELSE {})
           \cup (IF Truthy(a.keywords) THEN {"keywords"} ELSE {}) |->
        CASE k = "prompt" -> a.prompt
          [] k = "company_info" ->
                IF a.company_info.isinstance
                THEN CompanyInfo_to_dict(The(a.company_info.value))
                ELSE The(a.company_info.value)
          [] k = "keywords" -> The(a.keywords)]

\* the classes with a to_dict, their objects and their serialization
RequestClasses ==
    {"CompanyInfo", "CompanyData", "GenerationRequest", "BulkGenerationRequest"}

ObjectsOf(cls) ==
    CASE cls = "CompanyInfo" -> CompanyInfos
      [] cls = "CompanyData" -> CompanyDatas
      [] cls = "GenerationRequest" -> GenerationRequests
      [] cls = "BulkGenerationRequest" -> BulkGenerationRequests

to_dict(cls, obj) ==
    CASE cls = "CompanyInfo" -> CompanyInfo_to_dict(obj)
      [] cls = "CompanyData" -> CompanyData_to_dict(obj)
      [] cls = "GenerationRequest" -> GenerationRequest_to_dict(obj)
      [] cls = "BulkGenerationRequest" -> BulkGenerationRequest_to_dict(obj)

(***************************************************************************)
(* Entities of types.py and their decoding.  A JSON object is a function   *)
(* from keys to optional values (None is JSON null); from_dict lists, in   *)
(* the order of its keyword arguments, the key it reads for each attribute.*)
(***************************************************************************)
\* data["key"]: <<key, attribute>>
PublicationRequired ==
    << <<"id", "id">>, <<"title", "title">>, <<"content", "content">>,
       <<"type", "type">>, <<"status", "status">>,
       <<"contentLength", "content_length">>, <<"imagesCount", "images_count">>,
       <<"createdAt", "created_at">>, <<"updatedAt", "updated_at">> >>

\* data.get("key"): <<key, attribute>>
PublicationOptional ==
    << <<"metaTitle", "meta_title">>, <<"metaDescription", "meta_description">>,
       <<"companyName", "company_name">>,
       <<"companyDescription", "company_description">>,
       <<"companyIndustry", "company_industry">>,
       <<"companyTargetAudience", "company_target_audience">>,
       <<"topic", "topic">>, <<"structure", "structure">>, <<"images", "images">>,
       <<"qualityScore", "quality_score">>,
       <<"generationTimeSeconds", "generation_time_seconds">>,
       <<"publishedAt", "published_at">> >>

ImageRequired ==
    << <<"id", "id">>, <<"filename", "filename">>,
       <<"originalName", "original_name">>, <<"mimeType", "mime_type">>,
       <<"size", "size">>, <<"url", "url">>, <<"createdAt", "created_at">> >>

ImageOptional ==
    << <<"prompt", "prompt">>, <<"tags", "tags">>,
       <<"publicationId", "publication_id">> >>

EntityClasses == {"Publication", "Image"}
RequiredOf(cls) == IF cls = "Publication" THEN PublicationRequired ELSE ImageRequired
OptionalOf(cls) == IF cls = "Publication" THEN PublicationOptional ELSE ImageOptional

KeysOf(pairs) == {pairs[i][1] : i \in 1..Len(pairs)}
AttrsOf(pairs) == {pairs[i][2] : i \in 1..Len(pairs)}
KeyOfAttr(pairs, a) == CHOOSE i \in 1..Len(pairs) : pairs[i][2] = a

\* the JSON objects a decoder is given: every key of the entity present but
\* at most MaxAbsent of them, with possibly one null value, and possibly a
\* key the entity does not know
MaxAbsent == 2

EntityKeys(cls) == KeysOf(RequiredOf(cls)) \cup KeysOf(OptionalOf(cls))

JsonObjects(cls) ==
    {[k \in (EntityKeys(cls) \ absent) \cup extra |->
         IF k \in null THEN None ELSE Some("value")] :
       absent \in {A \in SUBSET EntityKeys(cls) : Cardinality(A) <= MaxAbsent},
       null \in {{}} \cup {{k} : k \in {"id", "topic", "prompt"}},
       extra \in {{}, {"deletedAt"}}}

Decoded(obj) == [raised |-> FALSE, error |-> NoError, object |-> obj]
DecodeFailed(e) == [raised |-> TRUE, error |-> e, object |-> EmptyDict]

\* data["key"] of a dict without that key
KeyErrorExc(key) == Exc("KeyError", "", key, 0)

\* faulty variant: a missing required key is read like an optional one
from_dict_lenient(cls, data) ==
    Decoded([a \in AttrsOf(RequiredOf(cls)) \cup AttrsOf(OptionalOf(cls)) |->
               LET pairs == IF a \in AttrsOf(RequiredOf(cls)) THEN RequiredOf(cls)
                            ELSE OptionalOf(cls)
                   key == pairs[KeyOfAttr(pairs, a)][1]
               IN IF key \in DOMAIN data THEN data[key] ELSE None])

\* Publication.from_dict / Image.from_dict: the keyword arguments are
\* evaluated in order, so the first required key that is missing raises
from_dict(cls, data) ==
    LET req == RequiredOf(cls)
        opt == OptionalOf(cls)
        missing == {i \in 1..Len(req) : req[i][1] \notin DOMAIN data}
    IN IF missing # {}
       THEN DecodeFailed(KeyErrorExc(req[CHOOSE i \in missing :
                                            \A j \in missing : i <= j][1]))
       ELSE Decoded([a \in AttrsOf(req) \cup AttrsOf(opt) |->
                       IF a \in AttrsOf(req)
                       THEN data[req[KeyOfAttr(req, a)][1]]
                       ELSE LET key == opt[KeyOfAttr(opt, a)][1]
                            IN IF key \in DOMAIN data THEN data[key] ELSE None])

(***************************************************************************)
(* The response classes of types.py and their properties.  Each class is   *)
(* the envelope (success, data, message, error); a property reads one key  *)
(* of data, or of a dict inside data.                                       *)
(***************************************************************************)
EnvelopeClasses ==
    {"GenerationResponse", "GenerationStatus", "BulkGenerationResponse",
     "BulkGenerationStatus", "SubscriptionStatus", "StatisticsOverview"}

\* <<property, key of data it reads>>
PropertyKeys(cls) ==
    CASE cls = "GenerationResponse" ->
            {<<"publication_id", "publicationId">>, <<"session_id", "sessionId">>}
      [] cls = "GenerationStatus" ->
            {<<"status", "status">>, <<"content", "content">>,
             <<"blog_topic", "blogTopic">>}
      [] cls = "BulkGenerationResponse" ->
            {<<"bulk_session_id", "bulk_session_id">>,
             <<"total_prompts", "total_prompts">>}
      [] cls = "BulkGenerationStatus" ->
            {<<"status", "status">>, <<"completed_prompts", "completed_prompts">>,
             <<"failed_prompts", "failed_prompts">>,
             <<"publications", "publications">>}
      [] cls = "SubscriptionStatus" -> {<<"subscription", "subscription">>}
      [] cls = "StatisticsOverview" ->
            {<<"publications", "publications">>, <<"images", "images">>,
             <<"api_keys", "apiKeys">>, <<"user_limits", "userLimits">>}

\* <<property, key of data["subscription"] it reads>>
SubscriptionKeys ==
    {<<"plan_name", "planName">>, <<"posts_remaining", "postsRemaining">>}

PropertiesOf(cls) ==
    {p[1] : p \in PropertyKeys(cls)} \cup
    (IF cls = "SubscriptionStatus" THEN {p[1] : p \in SubscriptionKeys} ELSE {})

DataKeys(cls) == {p[2] : p \in PropertyKeys(cls)}

\* the value data has under a key: a dict for subscription, a scalar otherwise
DataValues(key) ==
    IF key = "subscription"
    THEN {EmptyDict, [planName |-> "Pro"], [planName |-> "Pro", postsRemaining |-> "75"]}
    ELSE {"value"}

\* the objects of a class: data left out (None), empty, or with some of the
\* keys the properties read
EnvelopeObjects(cls) ==
    {[success |-> ok, data |-> d, message |-> None, error |-> None] :
        ok \in BOOLEAN,
        d \in {None, Some(EmptyDict)} \cup
              UNION {{Some(f) : f \in [K -> UNION {DataValues(k) : k \in K}]} :
                        K \in (SUBSET DataKeys(cls)) \ {{}}}}

PropertyValue(v) == [raised |-> FALSE, error |-> NoError, value |-> v]
PropertyRaised(e) == [raised |-> TRUE, error |-> e, value |-> None]

\* faulty variant: self.data.get(key) without the test of self.data
data_get_unguarded(obj, key) ==
    IF IsNone(obj.data)
    THEN PropertyRaised(Exc("AttributeError", "",
                            "'NoneType' object has no attribute 'get'", 0))
    ELSE PropertyValue(DictGet(The(obj.data), key))

\* self.data.get(key) if self.data else None
data_get(obj, key) ==
    PropertyValue(IF Truthy(obj.data) THEN DictGet(The(obj.data), key) ELSE None)

\* sub = self.subscription; sub.get(key) if sub else None
subscription_get(obj, key) ==
    LET sub == data_get(obj, "subscription")
    IN IF sub.raised THEN sub
       ELSE PropertyValue(IF Truthy(sub.value) THEN DictGet(The(sub.value), key)
                          ELSE None)

KeyOfProperty(pairs, name) == (CHOOSE p \in pairs : p[1] = name)[2]

\* obj.<name> for a property of the class
property_get(cls, obj, name) ==
    IF cls = "SubscriptionStatus" /\ name \in {p[1] : p \in SubscriptionKeys}
    THEN subscription_get(obj, KeyOfProperty(SubscriptionKeys, name))
    ELSE data_get(obj, KeyOfProperty(PropertyKeys(cls), name))

\* one evaluation of a function of types.py: the function, the class, its
\* argument and what it gave
IdleUnit == [fn |-> "", cls |-> "", arg |-> EmptyDict, out |-> EmptyDict]

Init ==
    /\ call = [c \in Calls |-> IdleFrame]
    /\ unit = IdleUnit
    /\ client \in Clients

\* a caller invokes an operation; in the sequential program no other call
\* is in progress
Invoke(c, sequential) ==
    /\ call[c].pc = "idle"
    /\ sequential => \A d \in Calls : call[d].pc = "idle"
    /\ client.session_open
    /\ client.scope \in {"plain", "with"}
    /\ \/ \E op \in SingleOps :
            call' = [call EXCEPT ![c] = [IdleFrame EXCEPT !.op = op, !.pc = "request"]]
       \/ \E op \in WaitOps, m \in AttemptArgs :
            call' = [call EXCEPT ![c] =
                        EnterLoop([IdleFrame EXCEPT !.op = op, !.max_attempts = m])]
    /\ UNCHANGED <<unit, client>>

\* the HTTP exchange of a single-request operation and its return or raise
Request(c) ==
    /\ call[c].pc = "request"
    /\ call[c].op \in SingleOps
    /\ \E resp \in HttpResponses, newRequests \in BOOLEAN :
         LET op == call[c].op
             r == CASE op = "health_check" -> health_check(resp, newRequests)
                    [] op = "generate_publication" ->
                          generate_publication(resp, newRequests)
                    [] op = "check_generation_status" ->
                          check_generation_status(resp, newRequests)
                    [] op = "check_bulk_generation_status" ->
                          check_bulk_generation_status(resp, newRequests)
                    [] op = "upload_image" -> upload_image(resp, newRequests)
                    [] op = "get_publications" -> get_publications(resp, newRequests)
                    [] op = "get_images" -> get_images(resp, newRequests)
                    [] op = "get_statistics_overview" ->
                          get_statistics_overview(resp, newRequests)
             f == [call[c] EXCEPT !.nreq = @ + r.requests, !.response = Some(resp),
                                  !.sent = session_request(client, KwargsOf(op))]
         IN call' = [call EXCEPT ![c] =
                        IF r.raised THEN Raise(f, r.error) ELSE Return(f, r.value)]
    /\ UNCHANGED <<unit, client>>

\* faulty variant: the loops keep their attempt counter on the client
\* object, so an iteration of one call advances every call that is polling
PollAnswered_shared_attempt(c, responses) ==
    /\ call[c].pc = "request"
    /\ call[c].op \in WaitOps
    /\ \E resp \in responses, newRequests \in BOOLEAN :
         LET single == call[c].op = "wait_for_generation"
             r == IF single THEN check_generation_status(resp, newRequests)
                  ELSE check_bulk_generation_status(resp, newRequests)
             f == [call[c] EXCEPT !.fetches = @ + 1, !.nreq = @ + r.requests,
                                  !.response = Some(resp),
                                  !.sent = session_request(client, KwargsOf(call[c].op))]
         IN call' = [d \in Calls |->
                       IF d = c
                       THEN (IF single THEN wait_for_generation(f, r)
                             ELSE wait_for_bulk_generation(f, r))
                       ELSE IF call[d].op \in WaitOps /\ call[d].pc \in {"request", "sleep"}
                       THEN [call[d] EXCEPT !.attempt = @ + 1]
                       ELSE call[d]]
    /\ UNCHANGED <<unit, client>>

\* one iteration of a polling loop, the status endpoint answering with one
\* of responses: the status check and what the loop does with the status
PollAnswered(c, responses) ==
    /\ call[c].pc = "request"
    /\ call[c].op \in WaitOps
    /\ \E resp \in responses, newRequests \in BOOLEAN :
         LET single == call[c].op = "wait_for_generation"
             r == IF single THEN check_generation_status(resp, newRequests)
                  ELSE check_bulk_generation_status(resp, newRequests)
             f == [call[c] EXCEPT !.fetches = @ + 1, !.nreq = @ + r.requests,
                                  !.response = Some(resp),
                                  !.sent = session_request(client, KwargsOf(call[c].op))]
         IN call' = [call EXCEPT ![c] =
                        IF single THEN wait_for_generation(f, r)
                        ELSE wait_for_bulk_generation(f, r)]
    /\ UNCHANGED <<unit, client>>

Poll(c) == PollAnswered(c, HttpResponses)

\* time.sleep(delay_seconds) returns and the for loop takes its next attempt
Sleep(c) ==
    /\ call[c].pc = "sleep"
    /\ call' = [call EXCEPT ![c] = [@ EXCEPT !.sleeps = @ + 1, !.attempt = @ + 1,
                                             !.pc = "request"]]
    /\ UNCHANGED <<unit, client>>

\* the caller has the result or the exception; the frame is gone
Finish(c) ==
    /\ call[c].pc = "done"
    /\ client.scope \in {"plain", "with"}
    /\ call' = [call EXCEPT ![c] = IdleFrame]
    /\ UNCHANGED <<unit, client>>

\* an exception raised by the caller's own code inside the with block
BlockError == Exc("ValueError", "", "raised in the block", 0)

\* with ContentGemClient(...) as client: __enter__ returns the client
EnterWith ==
    /\ client.scope = "plain"
    /\ client.session_open
    /\ \A d \in Calls : call[d].pc = "idle"
    /\ client' = [client EXCEPT !.scope = "with"]
    /\ UNCHANGED <<call, unit>>

\* the with block ends: normally, by an exception of the caller's own code,
\* or by the exception of an operation that the block does not catch
LeaveWith(c) ==
    /\ client.scope = "with"
    /\ \/ /\ call[c].pc = "idle"
          /\ \E e \in {NoError, BlockError} : client' = context_exit(client, e)
          /\ UNCHANGED call
       \/ /\ call[c].pc = "done"
          /\ call[c].outcome = "raised"
          /\ client' = context_exit(client, call[c].error)
          /\ call' = [call EXCEPT ![c] = IdleFrame]
    /\ UNCHANGED unit

\* client.close() called by the caller outside a with block
Close ==
    /\ client.scope = "plain"
    /\ client.session_open
    /\ \A d \in Calls : call[d].pc = "idle"
    /\ client' = close(client, FALSE)
    /\ UNCHANGED <<call, unit>>

(***************************************************************************)
(* cli.py: main runs one command on a client of its own and exits.         *)
(***************************************************************************)
Commands == {"health", "publications", "images", "statistics", "generate"}

\* the operation main calls for a command
OperationOf(command) ==
    CASE command = "health" -> "health_check"
      [] command = "publications" -> "get_publications"
      [] command = "images" -> "get_images"
      [] command = "statistics" -> "get_statistics_overview"
      [] command = "generate" -> "generate_publication"

\* the process ends with the exit code; closed tells whether client.close()
\* was reached before
Exit(cl, code, closed) ==
    [(IF closed THEN close(cl, FALSE) ELSE cl) EXCEPT
        !.scope = "exited", !.exit_code = Some(code)]

\* what main takes for success of the value an operation returned: .get("success")
\* of the dict, .success of the object
Succeeded(v) == "success" \in DOMAIN v /\ v.success

\* the code after a successful answer raises: .get on the null that
\* health.get('user', {}) or publications.get("data", {}) gives for a key
\* that is present with a null value
PrintRaises(command, v) ==
    \/ command = "health" /\ "user" \in DOMAIN v /\ IsNone(v.user)
    \/ command \in {"publications", "images"} /\ "data" \in DOMAIN v /\ IsNone(v.data)

\* faulty variant: a failed command is reported but the process ends normally
main_reports_only(cl, f) ==
    IF f.outcome = "raised" THEN Exit(cl, 1, FALSE)
    ELSE IF Succeeded(The(f.result)) /\ PrintRaises(cl.command, The(f.result))
    THEN Exit(cl, 1, FALSE)
    ELSE Exit(cl, 0, TRUE)

\* main once the operation of its command has returned or raised: sys.exit(1)
\* in an else branch and in the except clause, client.close() and a normal
\* return (exit code 0) otherwise
main(cl, f) ==
    IF f.outcome = "raised" THEN Exit(cl, 1, FALSE)
    ELSE IF ~Succeeded(The(f.result)) THEN Exit(cl, 1, FALSE)
    ELSE IF PrintRaises(cl.command, The(f.result)) THEN Exit(cl, 1, FALSE)
    ELSE Exit(cl, 0, TRUE)

\* main parses its arguments, builds the client (no timeout given) and
\* calls the operation of the command; generate without a prompt exits at once
CliStart(c) ==
    /\ client = NewClient(None)
    /\ \A d \in Calls : call[d].pc = "idle"
    /\ \E command \in Commands, has_args \in BOOLEAN :
         IF command = "generate" /\ ~has_args
         THEN /\ client' = Exit([client EXCEPT !.command = command], 1, FALSE)
              /\ UNCHANGED call
         ELSE /\ client' = [client EXCEPT !.scope = "cli", !.command = command]
              /\ call' = [call EXCEPT ![c] = [IdleFrame EXCEPT
                                                !.op = OperationOf(command),
                                                !.pc = "request"]]
    /\ UNCHANGED unit

\* the operation is back and main runs to its end
CliExit(c) ==
    /\ client.scope = "cli"
    /\ call[c].pc = "done"
    /\ client' = main(client, call[c])
    /\ UNCHANGED <<call, unit>>

Next ==
    \E c \in MainCalls :
        \/ Invoke(c, TRUE)
        \/ Request(c)
        \/ Poll(c)
        \/ Sleep(c)
        \/ Finish(c)
        \/ EnterWith
        \/ LeaveWith(c)
        \/ Close
        \/ CliStart(c)
        \/ CliExit(c)

Spec == Init /\ [][Next]_vars

\* the program with every status fetch and every sleep returning: an HTTP
\* exchange ends (with a response or an error, by the request's timeout at
\* the latest) and time.sleep(delay_seconds) returns
FairSpec ==
    Spec /\ \A c \in Calls : WF_vars(Poll(c)) /\ WF_vars(Sleep(c))

(***************************************************************************)
(* Polling calls of several callers (threads) on one client, interleaved.  *)
(* Each call polls a session of its own, whose statuses the server gives.  *)
(***************************************************************************)
\* the status endpoint answers with the status of the session
SessionResponses ==
    {JsonResponse(200, EnvStatus(s)) : s \in {"generating", "completed", "failed"}}

\* the max_attempts the concurrent callers pass
ConcurrentAttempts == {1, MaxAttempts}

\* a caller starts a polling call, whatever the other callers are doing
InvokeWait(c) ==
    /\ call[c].pc = "idle"
    /\ client.session_open
    /\ client.scope = "plain"
    /\ \E op \in WaitOps, m \in ConcurrentAttempts :
         call' = [call EXCEPT ![c] =
                     EnterLoop([IdleFrame EXCEPT !.op = op, !.max_attempts = m])]
    /\ UNCHANGED <<unit, client>>

PollSession(c) == PollAnswered(c, SessionResponses)

ConcurrentNext ==
    \E c \in Calls :
        \/ InvokeWait(c)
        \/ PollSession(c)
        \/ Sleep(c)
        \/ Finish(c)

ConcurrentSpec == Init /\ [][ConcurrentNext]_vars

(***************************************************************************)
(* The functions of types.py, and the payload of generate_publication,     *)
(* evaluated on their own.                                                 *)
(***************************************************************************)
\* obj.to_dict() of a request object
ToDict ==
    /\ unit = IdleUnit
    /\ \E cls \in RequestClasses :
         \E obj \in ObjectsOf(cls) :
            unit' = [fn |-> "to_dict", cls |-> cls, arg |-> obj,
                     out |-> to_dict(cls, obj)]
    /\ UNCHANGED <<call, client>>

\* the payload generate_publication builds from its arguments
RequestData ==
    /\ unit = IdleUnit
    /\ \E a \in GeneratePublicationArgs :
         unit' = [fn |-> "request_data", cls |-> "generate_publication", arg |-> a,
                  out |-> generate_publication_request_data(a)]
    /\ UNCHANGED <<call, client>>

\* Publication.from_dict(data) or Image.from_dict(data)
FromDict ==
    /\ unit = IdleUnit
    /\ \E cls \in EntityClasses :
         \E data \in JsonObjects(cls) :
            unit' = [fn |-> "from_dict", cls |-> cls, arg |-> data,
                     out |-> from_dict(cls, data)]
    /\ UNCHANGED <<call, client>>

\* every property of a response object is read
GetProperties ==
    /\ unit = IdleUnit
    /\ \E cls \in EnvelopeClasses :
         \E obj \in EnvelopeObjects(cls) :
            unit' = [fn |-> "properties", cls |-> cls, arg |-> obj,
                     out |-> [n \in PropertiesOf(cls) |-> property_get(cls, obj, n)]]
    /\ UNCHANGED <<call, client>>

\* the value is dropped
Discard ==
    /\ unit # IdleUnit
    /\ unit' = IdleUnit
    /\ UNCHANGED <<call, client>>

TypesNext == ToDict \/ RequestData \/ FromDict \/ GetProperties \/ Discard

TypesSpec == Init /\ [][TypesNext]_vars

(***************************************************************************)
(* Properties of the polling loops.                                        *)
(***************************************************************************)
Last(h) == h[Len(h)]
Completed == Some("completed")
Failed == Some("failed")
Terminal(st) == st \in {Completed, Failed}
\* every status but possibly the last is non-terminal
PendingBefore(h, n) == \A i \in 1..(n - 1) : ~Terminal(h[i])
AllPending(h) == \A i \in 1..Len(h) : ~Terminal(h[i])
\* the last status check of the frame returned a status object (did not raise)
LastFetchReturned(f) == f.fetches >= 1 /\ f.fetches = Len(f.hist)
Frames(ops) == {call[c] : c \in {d \in Calls : call[d].op \in ops}}

\* C1: when the status checks of wait_for_generation answer a non-terminal
\* status on calls 1..N-1 and "completed" on call N (N <= max_attempts), the
\* call returns the status object of call N after exactly N status fetches
\* (N HTTP requests) and N-1 sleeps.
C1_CompletedOnNthFetch ==
    \A f \in Frames({"wait_for_generation"}) :
        LET N == Len(f.hist) IN
        (N >= 1 /\ LastFetchReturned(f) /\ Last(f.hist) = Completed
           /\ PendingBefore(f.hist, N))
        => /\ N <= f.max_attempts
           /\ f.pc = "done"
           /\ f.outcome = "returned"
           /\ f.result = Some(Construct(The(f.response).body))
           /\ status(The(f.result)) = Completed
           /\ f.error = NoError
           /\ f.fetches = N
           /\ f.nreq = N
           /\ f.sleeps = N - 1

C1_Witness ==
    \E f \in Frames({"wait_for_generation"}) :
        /\ f.outcome = "returned"
        /\ f.max_attempts = 3
        /\ f.hist = <<Some("generating"), Some("generating"), Completed>>
        /\ content(The(f.result)) # None

\* C2: with max_attempts = M >= 1 and every status check answering a
\* non-terminal status, wait_for_generation performs exactly M fetches and
\* M-1 sleeps, never sleeps after the last fetch, and raises the timeout error.
C2_TimeoutAfterMaxAttempts ==
    \A f \in Frames({"wait_for_generation"}) :
        LET M == f.max_attempts IN
        /\ (M >= 1 /\ LastFetchReturned(f) /\ AllPending(f.hist) /\ Len(f.hist) < M)
           => f.pc \in {"sleep", "request"} /\ f.outcome = "none"
        /\ (M >= 1 /\ LastFetchReturned(f) /\ AllPending(f.hist) /\ Len(f.hist) >= M)
           => /\ f.pc = "done"
              /\ f.outcome = "raised"
              /\ f.error = GenerationTimeout
              /\ f.result = None
              /\ f.fetches = M
              /\ f.nreq = M
              /\ f.sleeps = M - 1
        /\ f.pc = "sleep" => f.fetches < M
        /\ f.fetches <= (IF M >= 1 THEN M ELSE 0)

C2_Witness ==
    \E f \in Frames({"wait_for_generation"}) :
        /\ f.max_attempts = 3
        /\ f.error = GenerationTimeout
        /\ f.fetches = 3
        /\ f.sleeps = 2
        /\ f.hist = <<Some("generating"), Some("generating"), Some("generating")>>

\* C3: a "failed" status observed by wait_for_generation on attempt k stops
\* the loop on attempt k with the job-failed error (k fetches, k-1 sleeps, no
\* value); on the first attempt that is 1 fetch and 0 sleeps.
C3_FailedStopsLoop ==
    \A f \in Frames({"wait_for_generation"}) :
        LET k == Len(f.hist) IN
        (k >= 1 /\ LastFetchReturned(f) /\ Last(f.hist) = Failed)
        => /\ f.pc = "done"
           /\ f.outcome = "raised"
           /\ f.error = GenerationFailed
           /\ f.result = None
           /\ f.attempt = k - 1
           /\ f.fetches = k
           /\ f.sleeps = k - 1
           /\ (f.hist = <<Failed>> => f.fetches = 1 /\ f.sleeps = 0)

C3_Witness ==
    \E f \in Frames({"wait_for_generation"}) :
        /\ f.hist = <<Failed>>
        /\ f.error = GenerationFailed
        /\ f.fetches = 1

\* the frame is PENDING after its last status check: it sleeps before the
\* next attempt or has slept and is about to fetch again, or that check was
\* the last permitted attempt and the call timed out
StaysPending(f) ==
    LET n == Len(f.hist) IN
    \/ /\ f.pc = "sleep"
       /\ f.outcome = "none"
       /\ f.attempt = n - 1
       /\ n < f.max_attempts
    \/ /\ f.pc = "request"
       /\ f.outcome = "none"
       /\ f.attempt = n
       /\ f.sleeps = n
       /\ n < f.max_attempts
    \/ /\ f.pc = "done"
       /\ f.outcome = "raised"
       /\ f.error.type = "TimeoutError"
       /\ f.result = None
       /\ n = f.max_attempts

\* C4: a fetched status string that is neither "completed" nor "failed"
\* never terminates a polling loop: the poller stays PENDING.
C4_UnknownStatusStaysPending ==
    \A f \in Frames(WaitOps) :
        (LastFetchReturned(f) /\ Last(f.hist) # None /\ ~Terminal(Last(f.hist)))
        => StaysPending(f)

C4_Witness ==
    \E f \in Frames(WaitOps) :
        /\ LastFetchReturned(f)
        /\ Last(f.hist) = Some("queued")
        /\ f.pc = "sleep"

\* the payload of the frame's last status check is an envelope without a data
\* object, or with a data object without a status key
MalformedStatusPayload(f) ==
    /\ f.response # None
    /\ LastFetchReturned(f)
    /\ LET body == The(f.response).body IN
       \/ "data" \notin DOMAIN body
       \/ IsNone(body.data)
       \/ "status" \notin DOMAIN The(body.data)

\* C5: a status payload without a data object, or whose data has no status
\* key, is treated as non-terminal: never returned as a success, never raised
\* as a job failure, never read as "completed".
C5_MalformedPayloadStaysPending ==
    \A f \in Frames(WaitOps) :
        MalformedStatusPayload(f)
        => /\ StaysPending(f)
           /\ f.outcome # "returned"
           /\ f.error \notin {GenerationFailed, BulkGenerationFailed}
           /\ status(The(f.status)) = None
           /\ ~is_completed(The(f.status))
           /\ ~bulk_is_completed(The(f.status))

C5_Witness ==
    \E f \in Frames(WaitOps) :
        /\ MalformedStatusPayload(f)
        /\ The(f.response).body = EnvEmptyData
        /\ f.pc = "sleep"

\* the outcomes of a polling call whose status checks all returned
TerminalFailure(f) ==
    f.pc = "done" /\ LastFetchReturned(f) /\ Last(f.hist) = Failed
TimedOut(f) ==
    /\ f.pc = "done"
    /\ f.fetches = Len(f.hist)
    /\ AllPending(f.hist)
JobFailedOf(op) ==
    IF op = "wait_for_generation" THEN GenerationFailed ELSE BulkGenerationFailed
TimeoutOf(op) ==
    IF op = "wait_for_generation" THEN GenerationTimeout ELSE BulkGenerationTimeout

\* C6: a polling call that ends in TERMINAL_FAILURE or TIMED_OUT returns no
\* value: it raises, and the job-failed error differs from the timeout error
\* in its exception type and in its message; a value is returned only for a
\* "completed" status.
C6_FailureAndTimeoutRaiseDistinctErrors ==
    \A f \in Frames(WaitOps) :
        /\ TerminalFailure(f)
           => /\ f.outcome = "raised"
              /\ f.result = None
              /\ f.error = JobFailedOf(f.op)
              /\ f.error.type # "TimeoutError"
              /\ f.error.detail # TimeoutOf(f.op).detail
        /\ TimedOut(f)
           => /\ f.outcome = "raised"
              /\ f.result = None
              /\ f.error = TimeoutOf(f.op)
              /\ f.error.type = "TimeoutError"
        /\ f.outcome = "returned"
           => LastFetchReturned(f) /\ Last(f.hist) = Completed

C6_Witness ==
    /\ \E f \in Frames({"wait_for_bulk_generation"}) :
          TimedOut(f) /\ f.max_attempts = 2 /\ f.fetches = 2
    /\ GenerationFailed.type # GenerationTimeout.type
    /\ BulkGenerationFailed.type # BulkGenerationTimeout.type

\* The polling state machine as a function of the fetched status values h
\* and of max_attempts m alone: its state, the fetches made and the sleeps
\* begun after k statuses.
RECURSIVE Machine(_, _, _)
Machine(h, m, k) ==
    IF k = 0
    THEN [state |-> IF m <= 0 THEN "TIMED_OUT" ELSE "PENDING",
          fetches |-> 0, sleeps |-> 0]
    ELSE LET p == Machine(h, m, k - 1) IN
         IF p.state # "PENDING" THEN p
         ELSE IF h[k] = Completed
         THEN [state |-> "TERMINAL_SUCCESS", fetches |-> k, sleeps |-> p.sleeps]
         ELSE IF h[k] = Failed
         THEN [state |-> "TERMINAL_FAILURE", fetches |-> k, sleeps |-> p.sleeps]
         ELSE IF k >= m
         THEN [state |-> "TIMED_OUT", fetches |-> k, sleeps |-> p.sleeps]
         ELSE [state |-> "PENDING", fetches |-> k, sleeps |-> p.sleeps + 1]

\* what a frame shows of that machine
Observed(f) ==
    [state |-> IF f.outcome = "returned" THEN "TERMINAL_SUCCESS"
               ELSE IF f.outcome = "none" THEN "PENDING"
               ELSE IF f.error.type = "TimeoutError" THEN "TIMED_OUT"
               ELSE "TERMINAL_FAILURE",
     fetches |-> f.fetches,
     sleeps |-> f.sleeps + (IF f.pc = "sleep" THEN 1 ELSE 0)]

\* C7: wait_for_generation and wait_for_bulk_generation are the same state
\* machine: whatever statuses were fetched and whatever max_attempts is, a
\* call of either has the outcome kind, the fetch count and the sleep count
\* that the one machine gives for that status sequence and max_attempts; the
\* two differ in the status operation they call and in their defaults.
C7_BulkIsSameMachine ==
    /\ \A f \in Frames(WaitOps) :
          f.fetches = Len(f.hist) => Observed(f) = Machine(f.hist, f.max_attempts, Len(f.hist))
    /\ RequestOf("wait_for_generation") = RequestOf("check_generation_status")
    /\ RequestOf("wait_for_bulk_generation") = RequestOf("check_bulk_generation_status")
    /\ RequestOf("wait_for_generation") # RequestOf("wait_for_bulk_generation")
    /\ <<DefaultMaxAttempts, DefaultDelaySeconds>> = <<60, 5>>
    /\ <<BulkDefaultMaxAttempts, BulkDefaultDelaySeconds>> = <<120, 10>>

C7_Witness ==
    \E f \in Frames({"wait_for_bulk_generation"}) :
        /\ f.hist = <<Some("generating"), Failed>>
        /\ f.max_attempts = 3
        /\ Observed(f) = [state |-> "TERMINAL_FAILURE", fetches |-> 2, sleeps |-> 1]

\* the frame's last status check raised
CheckOf(op, resp, n) ==
    IF op = "wait_for_generation" THEN check_generation_status(resp, n)
    ELSE check_bulk_generation_status(resp, n)

LastFetchRaised(f) ==
    /\ f.response # None
    /\ CheckOf(f.op, The(f.response), TRUE).raised

\* the errors the frame's status operation can raise for a response
FetchErrors(op, resp) == {CheckOf(op, resp, n).error : n \in BOOLEAN}

C8_RaisedFetchEndsLoop ==
    \A f \in Frames(WaitOps) :
        LastFetchRaised(f)
        => /\ f.pc = "done"
           /\ f.outcome = "raised"
           /\ f.result = None
           /\ f.error \in FetchErrors(f.op, The(f.response))
           /\ f.error \notin {JobFailedOf(f.op), TimeoutOf(f.op)}
           /\ f.fetches = f.attempt + 1
           /\ f.fetches = Len(f.hist) + 1
           /\ f.sleeps = f.attempt

\* a finished call does nothing more: its frame stays as it is until the
\* caller drops it
C8_DoneIsFinal ==
    \A c \in Calls :
        call[c].pc = "done" => call'[c] \in {call[c], IdleFrame}

\* C8: a status check that raises inside a polling loop ends the loop on
\* that attempt with that error: no pending status, timeout or success is
\* made of it, and no fetch or sleep follows.
C8_FetchErrorPropagates == []C8_RaisedFetchEndsLoop /\ [][C8_DoneIsFinal]_vars

C8_Witness ==
    \E f \in Frames(WaitOps) :
        /\ LastFetchRaised(f)
        /\ f.fetches = 2
        /\ f.error.prefix = "Request failed: "

\* C9: the transport never retries. A resource operation issues exactly one
\* HTTP request, whether it succeeds or fails; a polling loop issues one per
\* status fetch and no more than max_attempts; a mutating call never repeats.
C9_OneRequestPerOperation ==
    \A c \in Calls :
        LET f == call[c] IN
        /\ f.op \in SingleOps
           => /\ f.pc = "request" => f.nreq = 0
              /\ f.pc = "done" => f.nreq = 1
              /\ f.fetches = 0 /\ f.sleeps = 0
        /\ f.op \in WaitOps
           => /\ f.nreq = f.fetches
              /\ f.nreq <= (IF f.max_attempts > 0 THEN f.max_attempts ELSE 0)
        /\ f.op \in MutatingOps => f.nreq <= 1

C9_Witness ==
    /\ \E c \in Calls :
          /\ call[c].op = "generate_publication"
          /\ call[c].outcome = "raised"
          /\ call[c].nreq = 1

\* the operation of the frame got an HTTP response with a non-2xx status
Non2xx(f) ==
    /\ f.response # None
    /\ The(f.response).kind = "response"
    /\ ~(The(f.response).code >= 200 /\ The(f.response).code < 300)

\* the message and error strings of an envelope
EnvelopeTexts(body) ==
    (IF "message" \in DOMAIN body THEN body.message ELSE {}) \cup
    (IF "error" \in DOMAIN body THEN body.error ELSE {})

\* C10: on a non-2xx HTTP status the transport raises: with a JSON envelope
\* as body the error carries the envelope's message or error, with a body
\* that is not JSON it is a generic error carrying the status code; no value
\* is returned.
C10_Non2xxRaises ==
    \A c \in Calls :
        LET f == call[c] IN
        (Non2xx(f) /\ f.pc = "done")
        => /\ f.outcome = "raised"
           /\ f.result = None
           /\ The(f.response).json
              => f.error.prefix = "API Error: "
                 /\ f.error.detail \in EnvelopeTexts(The(f.response).body)
           /\ ~The(f.response).json
              => f.error.prefix = "HTTP " /\ f.error.code = The(f.response).code

(***************************************************************************)
(* Properties of the transport's errors.                                   *)
(***************************************************************************)
\* the operation of the frame met a transport-level failure: no HTTP response
NoHttpResponse(f) ==
    f.response # None /\ The(f.response).kind = "network"

\* the errors _make_request raises for HTTP responses with an error status
Non2xxErrors ==
    {make_request(r, n).error :
        r \in {x \in HttpResponses : x.kind = "response" /\ raise_for_status(x)},
        n \in BOOLEAN}

SuccessFalse(resp) ==
    /\ resp.kind = "response"
    /\ resp.json
    /\ "success" \in DOMAIN resp.body
    /\ ~resp.body.success

\* C12: whenever the server returns a parseable envelope with success false,
\* the operation raises at once an error that carries the envelope's message,
\* without another request; a status fetch of a polling loop that yields
\* success false ends the loop with that error and is not counted as pending.
C12_SuccessFalseRaisesAtOnce ==
    \A c \in Calls :
        LET f == call[c] IN
        (f.response # None /\ SuccessFalse(The(f.response)))
        => /\ f.pc = "done"
           /\ f.outcome = "raised"
           /\ f.result = None
           /\ "message" \in DOMAIN The(f.response).body
              => Some(f.error.detail) = The(f.response).body.message

\* C13: when the server answers generate_publication with HTTP 400 and an
\* error envelope {success: false, error: E, message: M}, the call returns a
\* response object with success false and error E.
C13_ErrorEnvelopeIsReturned ==
    \A c \in Calls :
        LET f == call[c] IN
        (/\ f.op = "generate_publication"
         /\ f.response = Some(JsonResponse(400, EnvError)))
        => /\ f.outcome = "returned"
           /\ f.result # None
           /\ ~The(f.result).success
           /\ The(f.result).error = EnvError.error

(***************************************************************************)
(* Properties of serialization and decoding.                               *)
(***************************************************************************)
\* the keys a payload of the class always has
RequiredKeys(cls) ==
    CASE cls = "GenerationRequest" -> {"prompt"}
      [] cls = "BulkGenerationRequest" -> {"prompts"}
      [] OTHER -> {}

\* the object has only its required fields set: every optional one is None
OnlyRequired(cls, obj) ==
    \A k \in DOMAIN obj : k \notin RequiredKeys(cls) => obj[k] = None

\* C14: serializing a request object that has only its required fields set
\* gives a payload whose keys are exactly the required keys (prompt for a
\* GenerationRequest, prompts for a BulkGenerationRequest, none for CompanyInfo
\* and CompanyData), with the values of those fields.
C14_OnlyRequiredKeys ==
    (unit.fn = "to_dict" /\ OnlyRequired(unit.cls, unit.arg))
    => /\ DOMAIN unit.out = RequiredKeys(unit.cls)
       /\ \A k \in RequiredKeys(unit.cls) : unit.out[k] = unit.arg[k]

C14_Witness ==
    /\ unit.fn = "to_dict"
    /\ unit.cls = "GenerationRequest"
    /\ OnlyRequired(unit.cls, unit.arg)
    /\ unit.out = [prompt |-> "Test prompt"]

\* the required keys the JSON object of the evaluation lacks
MissingRequired == KeysOf(RequiredOf(unit.cls)) \ DOMAIN unit.arg

BulkOps == {"check_bulk_generation_status", "wait_for_bulk_generation"}

\* a frame that has handed a snapshot of a bulk job to its caller
HandedSnapshot(f) == f.op \in BulkOps /\ f.pc = "done" /\ f.outcome = "returned"

\* total_prompts has no accessor on the snapshot: the caller reads the data
SnapshotTotal(obj) ==
    IF Truthy(obj.data) THEN DictGet(The(obj.data), "total_prompts") ELSE None

\* the counters are there and completed + failed <= total
CountersConsistent(total, completed, failed) ==
    /\ total # None /\ completed # None /\ failed # None
    /\ The(completed) + The(failed) <= The(total)

\* the counters of the JSON body of a response
WireCounter(resp, key) ==
    IF "data" \in DOMAIN resp.body /\ ~IsNone(resp.body.data)
    THEN DictGet(The(resp.body.data), key) ELSE None

\* C16 (as claimed): every snapshot of a bulk job the client hands to the
\* caller satisfies completed_prompts + failed_prompts <= total_prompts.
C16_SnapshotCountersConsistent ==
    \A c \in Calls :
        LET f == call[c] IN
        HandedSnapshot(f)
        => CountersConsistent(SnapshotTotal(The(f.result)),
                              completed_prompts(The(f.result)),
                              failed_prompts(The(f.result)))

\* C16 (amended): the snapshot of a bulk job the client hands to the caller
\* shows the counters of the last status response as they came (None for a
\* counter the response lacks), so completed_prompts + failed_prompts <=
\* total_prompts holds of the snapshot exactly when the response carries the
\* three counters and they satisfy it: the client neither checks nor repairs.
C16_SnapshotCountersAreTheServers ==
    \A c \in Calls :
        LET f == call[c] IN
        HandedSnapshot(f)
        => LET obj == The(f.result)
               resp == The(f.response)
           IN /\ completed_prompts(obj) = WireCounter(resp, "completed_prompts")
              /\ failed_prompts(obj) = WireCounter(resp, "failed_prompts")
              /\ SnapshotTotal(obj) = WireCounter(resp, "total_prompts")
              /\ CountersConsistent(SnapshotTotal(obj), completed_prompts(obj),
                                    failed_prompts(obj))
                 <=> CountersConsistent(WireCounter(resp, "total_prompts"),
                                        WireCounter(resp, "completed_prompts"),
                                        WireCounter(resp, "failed_prompts"))

C16_Witness ==
    \E c \in Calls :
        /\ call[c].op = "wait_for_bulk_generation"
        /\ HandedSnapshot(call[c])
        /\ call[c].fetches = 2
        /\ completed_prompts(The(call[c].result)) = Some(2)
        /\ failed_prompts(The(call[c].result)) = Some(1)
        /\ SnapshotTotal(The(call[c].result)) = Some(3)

(***************************************************************************)
(* Properties of the requests as sent and of the session.                  *)
(***************************************************************************)
\* the frame has sent a request
HasSent(f) == f.sent # NoRequest

HasHeader(req, name, value) == name \in DOMAIN req.headers /\ req.headers[name] = value

\* C17: every request carries the API key header; every request other than
\* the image upload carries the JSON content type; the image upload goes out
\* as multipart and its effective headers, after the session's defaults are
\* merged with the request's own, hold X-API-Key but not
\* Content-Type: application/json.
C17_HeadersOfEveryRequest ==
    \A c \in Calls :
        LET f == call[c] IN
        HasSent(f)
        => /\ HasHeader(f.sent, "X-API-Key", ApiKey)
           /\ f.op # "upload_image"
              => HasHeader(f.sent, "Content-Type", JsonContentType)
           /\ f.op = "upload_image"
              => /\ f.sent.body = "multipart"
                 /\ ~HasHeader(f.sent, "Content-Type", JsonContentType)

\* C18: every HTTP call, each status fetch of a polling loop included, is
\* sent with the timeout the client was constructed with, 30 seconds when
\* none was given, whatever max_attempts the loop was given.
C18_TimeoutOfEveryRequest ==
    \A c \in Calls :
        LET f == call[c] IN
        HasSent(f)
        => /\ f.sent.timeout = client.timeout
           /\ client.timeout_arg = None => f.sent.timeout = 30
           /\ client.timeout_arg # None => f.sent.timeout = The(client.timeout_arg)

C18_Witness ==
    \E c \in Calls :
        /\ call[c].op = "wait_for_generation"
        /\ call[c].fetches = 2
        /\ call[c].max_attempts = 3
        /\ client.timeout_arg = Some(60)
        /\ call[c].sent.timeout = 60

\* C19: a client used as a context manager has its HTTP session closed once
\* the with block is left, whether the block ended normally or by an
\* exception, and an exception raised inside the block still propagates.
C19_ContextManagerCloses ==
    client.scope = "left"
    => /\ ~client.session_open
       /\ client.propagated = client.exc

C19_Witness ==
    /\ client.scope = "left"
    /\ ~client.session_open
    /\ client.exc = Exc("RequestException", "Request failed: ", "Read timed out", 0)
    /\ client.propagated = client.exc

\* the with block was left normally and the session is closed
C19_WitnessNormalExit ==
    /\ client.scope = "left"
    /\ ~client.session_open
    /\ client.exc = NoError

C21_WitnessEntity ==
    /\ unit.fn = "from_dict"
    /\ unit.cls = "Publication"
    /\ DOMAIN unit.arg = EntityKeys("Publication") \ {"metaTitle", "publishedAt"}
    /\ ~unit.out.raised
    /\ unit.out.object["meta_title"] = None
    /\ unit.out.object["published_at"] = None

(***************************************************************************)
(* Properties of the command line.                                         *)
(***************************************************************************)
\* the answer the command got is a successful envelope
WireSuccessful(f) ==
    /\ f.response # None
    /\ The(f.response).kind = "response"
    /\ The(f.response).json
    /\ ~raise_for_status(The(f.response))
    /\ "success" \in DOMAIN The(f.response).body
    /\ The(f.response).body.success

\* a run of main has ended; its command got as far as its operation
CliRan(c) == client.scope = "exited" /\ call[c].op = OperationOf(client.command)

\* C22: for every command the CLI exits with a non-zero status whenever the
\* envelope it got is unsuccessful or an error was thrown while the command
\* ran, and with status zero only when the envelope was successful.
C22_ExitCode ==
    client.scope = "exited"
    => /\ client.exit_code \in {Some(0), Some(1)}
       /\ \A c \in MainCalls :
            /\ (call[c].pc = "done" /\ ~WireSuccessful(call[c]))
               => client.exit_code # Some(0)
            /\ call[c].outcome = "raised" => client.exit_code # Some(0)
            /\ client.exit_code = Some(0)
               => /\ CliRan(c)
                  /\ call[c].outcome = "returned"
                  /\ WireSuccessful(call[c])

C22_Witness ==
    /\ client.scope = "exited"
    /\ client.command = "statistics"
    /\ call[1].outcome = "returned"
    /\ call[1].response = Some(JsonResponse(200, EnvError))
    /\ client.exit_code = Some(1)

\* the run of a command that got a successful envelope and ended with 0
C22_WitnessZero ==
    /\ client.scope = "exited"
    /\ client.command = "health"
    /\ WireSuccessful(call[1])
    /\ client.exit_code = Some(0)

\* C26: on every run of main in which the client was constructed, the
\* session is closed before the process exits, whether the command succeeded
\* or ended through an unsuccessful envelope or a thrown error.
C26_CliClosesSession ==
    client.scope = "exited" => ~client.session_open

(***************************************************************************)
(* Further properties of the polling loops.                                *)
(***************************************************************************)
\* the snapshot the status operation builds from the frame's last response
LastSnapshot(f) == Construct(The(f.response).body)

\* the frame has observed a terminal status
SawTerminal(f) == Len(f.hist) >= 1 /\ Terminal(Last(f.hist))

C23_ReturnsLastCompleted ==
    \A f \in Frames(WaitOps) :
        f.outcome = "returned"
        => /\ f.pc = "done"
           /\ LastFetchReturned(f)
           /\ f.result = Some(LastSnapshot(f))
           /\ f.result = f.status
           /\ (IF f.op = "wait_for_generation" THEN status(The(f.result))
               ELSE bulk_status(The(f.result))) = Completed
           /\ Last(f.hist) = Completed
           /\ PendingBefore(f.hist, Len(f.hist))

C23_NothingAfterTerminal ==
    \A c \in Calls :
        (call[c].op \in WaitOps /\ SawTerminal(call[c]))
        => \/ call'[c] = call[c]
           \/ call'[c] = IdleFrame

\* C23: whenever wait_for_generation or wait_for_bulk_generation returns a
\* value, it is the snapshot of the last status fetch of that call and its
\* status is exactly "completed"; no earlier, pending snapshot is returned,
\* and after a terminal snapshot was observed the call fetches and sleeps
\* no more.
C23_ReturnedSnapshotIsLastAndCompleted ==
    []C23_ReturnsLastCompleted /\ [][C23_NothingAfterTerminal]_vars

C23_Witness ==
    \E f \in Frames({"wait_for_bulk_generation"}) :
        /\ f.outcome = "returned"
        /\ f.fetches = 3
        /\ f.sleeps = 2
        /\ f.hist = <<None, Some("queued"), Completed>>
        /\ f.result = Some(LastSnapshot(f))

\* the three outcomes of a polling call whose status fetches all returned
EndedInSuccess(f) == f.outcome = "returned" /\ Last(f.hist) = Completed
EndedInFailure(f) ==
    /\ f.outcome = "raised" /\ f.error = JobFailedOf(f.op)
    /\ Len(f.hist) >= 1 /\ Last(f.hist) = Failed
EndedInTimeout(f) ==
    f.outcome = "raised" /\ f.error = TimeoutOf(f.op) /\ AllPending(f.hist)

C24_ExactlyOneOutcome ==
    \A f \in Frames(WaitOps) :
        (f.pc = "done" /\ f.fetches = Len(f.hist))
        => /\ EndedInSuccess(f) \/ EndedInFailure(f) \/ EndedInTimeout(f)
           /\ ~(EndedInSuccess(f) /\ EndedInFailure(f))
           /\ ~(EndedInSuccess(f) /\ EndedInTimeout(f))
           /\ ~(EndedInFailure(f) /\ EndedInTimeout(f))

C24_OutcomeStays ==
    \A c \in Calls :
        (call[c].op \in WaitOps /\ call[c].pc = "done")
        => \/ call'[c] = IdleFrame
           \/ /\ call'[c].pc = "done"
              /\ call'[c].outcome = call[c].outcome
              /\ call'[c].error = call[c].error
              /\ call'[c].result = call[c].result

C24_LeavesPending ==
    \A c \in Calls :
        (call[c].op \in WaitOps /\ call[c].pc # "done") ~> (call[c].pc = "done")

\* C24: polling always terminates. For every max_attempts and every sequence
\* of server statuses, as long as each status fetch and each sleep returns, a
\* call of wait_for_generation or wait_for_bulk_generation eventually leaves
\* PENDING, ends in exactly one of TERMINAL_SUCCESS, TERMINAL_FAILURE and
\* TIMED_OUT, and keeps that outcome.
C24_PollingTerminates ==
    /\ []C24_ExactlyOneOutcome
    /\ [][C24_OutcomeStays]_vars
    /\ C24_LeavesPending

C24_Witness ==
    \E f \in Frames({"wait_for_generation"}) :
        /\ f.pc = "done"
        /\ f.max_attempts = 3
        /\ f.fetches = 3
        /\ f.sleeps = 2
        /\ EndedInTimeout(f)

\* where a polling call stands between its fetches and its sleeps: sleeps
\* counts the sleeps that have returned
C25_Counts ==
    \A f \in Frames(WaitOps) :
        /\ f.fetches <= (IF f.max_attempts > 0 THEN f.max_attempts ELSE 0)
        /\ f.sleeps <= f.fetches
        /\ f.pc = "request" => f.sleeps = f.fetches
        /\ f.pc = "sleep"
           => /\ f.sleeps = f.fetches - 1
              /\ LastFetchReturned(f)
              /\ ~Terminal(Last(f.hist))
              /\ f.fetches < f.max_attempts
        /\ f.pc = "done"
           => f.sleeps = (IF f.fetches = 0 THEN 0 ELSE f.fetches - 1)

\* the steps of a polling call: a fetch from where a fetch is due, the end of
\* a sleep from inside a sleep, and a sleep begins only with a fetch
C25_Steps ==
    \A c \in Calls :
        (call[c].op \in WaitOps /\ call'[c] # call[c] /\ call'[c] # IdleFrame)
        => \/ /\ call[c].pc = "request"
              /\ call'[c].fetches = call[c].fetches + 1
              /\ call'[c].sleeps = call[c].sleeps
              /\ call'[c].pc \in {"sleep", "done"}
           \/ /\ call[c].pc = "sleep"
              /\ call'[c].fetches = call[c].fetches
              /\ call'[c].sleeps = call[c].sleeps + 1
              /\ call'[c].pc = "request"

\* C25: in every reachable state of a polling call fetches <= max_attempts
\* and sleeps <= fetches; fetches and sleeps alternate strictly, starting
\* with a fetch; a sleep happens only directly after a fetch that returned a
\* non-terminal status on an attempt before the last one, and every sleep is
\* followed by another fetch.
C25_FetchesAndSleepsAlternate ==
    []C25_Counts /\ [][C25_Steps]_vars

C25_Witness ==
    \E f \in Frames({"wait_for_bulk_generation"}) :
        /\ f.pc = "sleep"
        /\ f.max_attempts = 3
        /\ f.fetches = 2
        /\ f.sleeps = 1
        /\ f.hist = <<Some("generating"), None>>

(***************************************************************************)
(* Properties of interleaved polling calls.                                *)
(***************************************************************************)
\* the call is in the state, and has the outcome, that its own statuses and
\* its own max_attempts give to a call that runs alone
AsIfAlone(f) ==
    /\ f.fetches = Len(f.hist)
    /\ Observed(f) = Machine(f.hist, f.max_attempts, Len(f.hist))
    /\ f.outcome = "returned" => f.result = Some(LastSnapshot(f))
    /\ f.outcome = "raised"
       => f.error = (IF Last(f.hist) = Failed THEN JobFailedOf(f.op)
                     ELSE TimeoutOf(f.op))
    /\ f.pc = "sleep" => f.attempt = f.fetches - 1
    /\ f.pc = "request" => f.attempt = f.fetches

\* C27: polling calls share no mutable state. When wait_for_* calls for
\* different sessions run interleaved on one client, the outcome of each and
\* its fetch and sleep counts are those its own session's status sequence
\* and its own max_attempts give to a call running alone.
C27_InterleavedCallsAreIndependent ==
    \A c \in Calls : call[c].op \in WaitOps => AsIfAlone(call[c])

C27_Witness ==
    /\ call[1].op = "wait_for_generation"
    /\ call[1].pc = "sleep"
    /\ call[1].max_attempts = MaxAttempts
    /\ call[1].hist = <<Some("generating"), Some("generating")>>
    /\ call[2].op = "wait_for_bulk_generation"
    /\ call[2].max_attempts = 1
    /\ call[2].hist = <<Some("generating")>>
    /\ call[2].error = BulkGenerationTimeout

(***************************************************************************)
(* Properties of a polling call given no attempts.                         *)
(***************************************************************************)
\* C28: with max_attempts <= 0, wait_for_generation and
\* wait_for_bulk_generation fetch no status and do not sleep: the call
\* raises its timeout error at once, whatever the state of the job.
C28_NoAttemptsIsTimeoutAtOnce ==
    \A f \in Frames(WaitOps) :
        f.max_attempts <= 0
        => /\ f.pc = "done"
           /\ f.fetches = 0
           /\ f.sleeps = 0
           /\ f.nreq = 0
           /\ f.hist = <<>>
           /\ f.sent = NoRequest
           /\ f.outcome = "raised"
           /\ f.error = TimeoutOf(f.op)

C28_Witness ==
    \E f \in Frames(WaitOps) :
        /\ f.max_attempts < 0
        /\ f.op = "wait_for_bulk_generation"
        /\ f.fetches = 0
        /\ f.error = BulkGenerationTimeout

(***************************************************************************)
(* Properties of the request payloads.                                     *)
(***************************************************************************)
\* the evaluation built a request payload
BuiltPayload ==
    \/ unit.fn = "request_data"
    \/ unit.fn = "to_dict" /\ unit.cls \in {"GenerationRequest", "BulkGenerationRequest"}

\* the keys of a payload that hold a collection
CollectionKeys == {"company_info", "keywords", "common_settings"}

\* the payload keys whose value is an empty list or an empty mapping
EmptyValued(payload) ==
    {k \in DOMAIN payload \cap CollectionKeys : DOMAIN payload[k] = {}}

\* the company_info the payload was built from is a CompanyInfo with no
\* field set
EmptyCompanyInfoGiven ==
    LET o == IF unit.fn = "request_data" THEN unit.arg.company_info.value
             ELSE unit.arg.company_info
    IN /\ unit.fn = "request_data" => unit.arg.company_info.isinstance
       /\ ~IsNone(o)
       /\ \A k \in CompanyInfoFields : IsNone(The(o)[k])

\* C29: the payload built by generate_publication, GenerationRequest.to_dict
\* and BulkGenerationRequest.to_dict has no key with an empty list or an
\* empty mapping as its value (None is never written): an empty collection
\* and a CompanyInfo with no field set are left out like an unset argument.
C29_NoEmptyValueInPayload ==
    BuiltPayload => EmptyValued(unit.out) = {}

\* what the code does: only a CompanyInfo with no field set is written as an
\* empty mapping, under the key company_info
C29_OnlyEmptyCompanyInfoIsWritten ==
    BuiltPayload
    => /\ EmptyValued(unit.out) \subseteq {"company_info"}
       /\ EmptyValued(unit.out) # {} <=> EmptyCompanyInfoGiven

C29_EmptyCompanyInfoWritten ==
    /\ unit.fn = "request_data"
    /\ EmptyCompanyInfoGiven
    /\ unit.arg.keywords = Some(<<>>)
    /\ unit.out = [prompt |-> "Test prompt", company_info |-> EmptyDict]

(***************************************************************************)
(* Properties of status responses the status classes cannot be built from. *)
(***************************************************************************)
StatusOps == {"check_generation_status", "check_bulk_generation_status"}

\* a 2xx JSON response whose envelope has a top-level key other than
\* success, data, message and error, or has no success key
MalformedEnvelope(resp) ==
    /\ resp.kind = "response"
    /\ resp.code = 200
    /\ resp.json
    /\ \/ "success" \notin DOMAIN resp.body
       \/ DOMAIN resp.body \ {"success", "data", "message", "error"} # {}

\* C30: a 2xx JSON status response whose envelope has an unknown top-level
\* key, or no success key, makes check_generation_status and
\* check_bulk_generation_status raise the constructor's TypeError; a polling
\* loop that receives it ends on that attempt with that error: the response
\* is not taken as a pending status, and no sleep or fetch follows.
C30_MalformedEnvelopeEndsPolling ==
    \A f \in Frames(WaitOps \cup StatusOps) :
        (f.response # None /\ MalformedEnvelope(The(f.response)))
        => /\ f.pc = "done"
           /\ f.outcome = "raised"
           /\ f.result = None
           /\ f.error = TypeErrorExc
           /\ f.op \in WaitOps
              => /\ f.fetches = f.attempt + 1
                 /\ f.sleeps = f.attempt
                 /\ Len(f.hist) = f.attempt
                 /\ f.nreq = f.fetches

C30_Witness ==
    \E f \in Frames({"wait_for_generation"}) :
        /\ f.max_attempts = MaxAttempts
        /\ f.fetches = 2
        /\ f.sleeps = 1
        /\ f.response = Some(JsonResponse(200, EnvNoSuccess))
        /\ f.error = TypeErrorExc

C30_WitnessExtraKey ==
    \E f \in Frames({"wait_for_bulk_generation"}) :
        /\ f.fetches = 1
        /\ f.response = Some(JsonResponse(200, EnvExtraKey))
        /\ f.error = TypeErrorExc

=============================================================================
